---------------------------- MODULE Spec2Model ----------------------------
(***************************************************************************)
(* Model of src/tmr_webapp.py, the Streamlit TMR formulator.               *)
(*                                                                         *)
(* The script is re-run from top to bottom on every widget event.  The     *)
(* widget values (sidebar number inputs, the editable feed table) are the  *)
(* persistent state; what the page shows after the last run is the         *)
(* observable outcome.  Pressing "Formulate TMR" runs lines 78-121 as one  *)
(* handler: build the LP, solve it, read the values back, show the table,  *)
(* render the diet composition.                                            *)
(*                                                                         *)
(* Number encoding.  The script computes in floats; the model computes the *)
(* same expressions exactly:                                               *)
(*   - kg of dry matter are rationals num/den (den > 0),                   *)
(*   - energy (NEL) is counted in tenths of a Mcal, so the 1.6 of line 65  *)
(*     is 16 and a feed's NEL cell 1.5 is 15,                              *)
(*   - percentages and prices are integers,                                *)
(*   - a constraint whose two sides are divided by 100 in the source       *)
(*     (lines 89-95) is kept with both sides multiplied by 100.            *)
(* Python's None / a blank (NaN) cell is the empty set and a present value *)
(* v is {v}.  A feed name is the sequence of its characters.               *)
(***************************************************************************)
EXTENDS Integers, Sequences, FiniteSets

VARIABLES bw_kg, milk_kg, dim, target_dmi, feed_df, requirements,
          status, sol, forage_vars, shown, last

vars == <<bw_kg, milk_kg, dim, target_dmi, feed_df, requirements,
          status, sol, forage_vars, shown, last>>

---------------------------------------------------------------------------
(* Bounds of the model *)

MaxFeeds == 2
MaxDmi == 2
MaxPrice == 2

---------------------------------------------------------------------------
(* Generic helpers *)

None == {}

Some(v) == {v}

IsNone(o) == o = {}

Get(o) == CHOOSE v \in o : TRUE

Abs(i) == IF i < 0 THEN -i ELSE i

RECURSIVE Gcd(_, _)
Gcd(a, b) == IF b = 0 THEN a ELSE Gcd(b, a % b)

RECURSIVE SumSeq(_)
SumSeq(s) == IF s = <<>> THEN 0 ELSE Head(s) + SumSeq(Tail(s))

Dot(a, b) == SumSeq([j \in 1..Len(a) |-> a[j] * b[j]])

---------------------------------------------------------------------------
(* Feed names, as character sequences *)

dry_hay == <<"d", "r", "y", "_", "h", "a", "y">>

corn_silage == <<"c", "o", "r", "n", "_", "s", "i", "l", "a", "g", "e">>

sbm48 == <<"s", "b", "m", "4", "8">>

Hay == <<"H", "a", "y">>

\* Python's `pat in s` for strings: pat occurs as a contiguous substring.
Contains(s, pat) ==
    \E i \in 1..(Len(s) - Len(pat) + 1) : SubSeq(s, i, i + Len(pat) - 1) = pat

---------------------------------------------------------------------------
(* Feed records built from the feed table (lines 36-59) *)

\* One Feed per table row; a blank "Max kg DM" cell becomes None and
\* min_kg_dm is never passed, so it keeps the dataclass default 0.0.
MakeFeed(row) ==
    [name            |-> row.Name,
     price_per_kg_dm |-> row.Price,
     nel             |-> row.NEL,
     cp_pct          |-> row.CP,
     ndf_pct         |-> row.NDF,
     starch_pct      |-> row.Starch,
     ee_pct          |-> row.Fat,
     max_kg_dm       |-> IF IsNone(row.MaxKgDM) THEN None ELSE Some(Get(row.MaxKgDM)),
     min_kg_dm       |-> 0]

Feeds(df) == [i \in 1..Len(df) |-> MakeFeed(df[i])]

---------------------------------------------------------------------------
(* Placeholder requirements (lines 62-73) *)

cp_pct_target == 17

nel_per_kg_dmi == 16

ndf_min_pct == 26

ndf_max_pct == 34

starch_max_pct == 30

\* cp_g = dmi_kg * 17.0 / 100.0 * 1000.0 is exact because 17 * 1000 is a
\* multiple of 100; the multiplication is done first to keep it in integers.
cp_g_of(dmi_kg) == (dmi_kg * cp_pct_target * 1000) \div 100

nel_mcal_of(dmi_kg) == dmi_kg * nel_per_kg_dmi

\* Faulty variant: an estimator whose energy requirement grows with the milk yield.
get_nasem_requirements_milk(bw, milk, d, dmi_kg) ==
    [dmi_kg         |-> dmi_kg,
     nel_mcal       |-> nel_mcal_of(dmi_kg) + 7 * milk,
     cp_g           |-> cp_g_of(dmi_kg),
     ndf_min_pct    |-> ndf_min_pct,
     ndf_max_pct    |-> ndf_max_pct,
     starch_max_pct |-> starch_max_pct]

get_nasem_requirements(bw, milk, d, dmi_kg) ==
    [dmi_kg         |-> dmi_kg,
     nel_mcal       |-> nel_mcal_of(dmi_kg),
     cp_g           |-> cp_g_of(dmi_kg),
     ndf_min_pct    |-> ndf_min_pct,
     ndf_max_pct    |-> ndf_max_pct,
     starch_max_pct |-> starch_max_pct]

---------------------------------------------------------------------------
(* Building the linear program (lines 79-95) *)

RECURSIVE DistinctNames(_, _)
DistinctNames(feeds, seen) ==
    IF feeds = <<>> THEN <<>>
    ELSE IF Head(feeds).name \in seen
         THEN DistinctNames(Tail(feeds), seen)
         ELSE <<Head(feeds).name>>
              \o DistinctNames(Tail(feeds), seen \cup {Head(feeds).name})

\* Keys of the dict x of line 80, in insertion order: one key per distinct
\* name, however many rows carry it.
XKeys(feeds) == DistinctNames(feeds, {})

\* The LpVariable the dict keeps for a name is the one of the last row
\* with that name (a dict comprehension overwrites earlier keys).
LastIndex(feeds, nm) ==
    CHOOSE i \in 1..Len(feeds) :
        /\ feeds[i].name = nm
        /\ \A k \in (i + 1)..Len(feeds) : feeds[k].name # nm

lowBound(feeds, nm) == feeds[LastIndex(feeds, nm)].min_kg_dm

upBound(feeds, nm) == feeds[LastIndex(feeds, nm)].max_kg_dm

\* lpSum([x[f.name] * coef(f) for f in feeds]) as a coefficient vector over
\* the keys, coef[i] being the factor of row i: rows sharing a name add up
\* on one variable.
LpSum(feeds, coef) ==
    LET keys == XKeys(feeds)
    IN [j \in 1..Len(keys) |->
          SumSeq([i \in 1..Len(feeds) |->
                    IF feeds[i].name = keys[j] THEN coef[i] ELSE 0])]

hay == <<"h", "a", "y">>

silage == <<"s", "i", "l", "a", "g", "e">>

\* Faulty variant: the same test after lower-casing the name.
ToLower(s) == [i \in 1..Len(s) |-> IF s[i] = "H" THEN "h" ELSE s[i]]

IsForage_ignore_case(f) ==
    Contains(ToLower(f.name), hay) \/ Contains(ToLower(f.name), silage)

\* Line 94: "hay" in f.name or "silage" in f.name
IsForage(f) == Contains(f.name, hay) \/ Contains(f.name, silage)

forage_min_pct == 20

\* Faulty variant: the objective with its sign reversed.
Objective_negated(feeds) ==
    LpSum(feeds, [i \in 1..Len(feeds) |-> -feeds[i].price_per_kg_dm])

\* Line 83
Objective(feeds) ==
    LpSum(feeds, [i \in 1..Len(feeds) |-> feeds[i].price_per_kg_dm])

\* Line 86
MassBalance(feeds, req) ==
    [a     |-> LpSum(feeds, [i \in 1..Len(feeds) |-> 1]),
     sense |-> "eq",
     b     |-> req.dmi_kg]

\* Line 87 (tenths of a Mcal on both sides)
Energy(feeds, req) ==
    [a     |-> LpSum(feeds, [i \in 1..Len(feeds) |-> feeds[i].nel]),
     sense |-> "ge",
     b     |-> req.nel_mcal]

\* Line 88: x * (cp_pct / 100) * 1000, in grams
Protein(feeds, req) ==
    [a     |-> LpSum(feeds, [i \in 1..Len(feeds) |-> (feeds[i].cp_pct * 1000) \div 100]),
     sense |-> "ge",
     b     |-> req.cp_g]

\* Lines 89-90 (both sides times 100)
NdfMin(feeds, req) ==
    [a     |-> LpSum(feeds, [i \in 1..Len(feeds) |-> feeds[i].ndf_pct]),
     sense |-> "ge",
     b     |-> req.ndf_min_pct * req.dmi_kg]

\* Line 91 (both sides times 100)
NdfMax(feeds, req) ==
    [a     |-> LpSum(feeds, [i \in 1..Len(feeds) |-> feeds[i].ndf_pct]),
     sense |-> "le",
     b     |-> req.ndf_max_pct * req.dmi_kg]

\* Lines 92-93 (both sides times 100)
StarchMax(feeds, req) ==
    [a     |-> LpSum(feeds, [i \in 1..Len(feeds) |-> feeds[i].starch_pct]),
     sense |-> "le",
     b     |-> req.starch_max_pct * req.dmi_kg]

\* Line 94: the list of variables, one entry per forage row
ForageVars(feeds) == SelectSeq([i \in 1..Len(feeds) |-> feeds[i]], IsForage)

\* Line 95 (both sides times 100): 0.20 * dmi_kg
ForageMin(feeds, req) ==
    [a     |-> LpSum(feeds, [i \in 1..Len(feeds) |->
                             IF IsForage(feeds[i]) THEN 100 ELSE 0]),
     sense |-> "ge",
     b     |-> forage_min_pct * req.dmi_kg]

Constraints(feeds, req) ==
    <<MassBalance(feeds, req), Energy(feeds, req), Protein(feeds, req),
      NdfMin(feeds, req), NdfMax(feeds, req), StarchMax(feeds, req),
      ForageMin(feeds, req)>>

\* The variable bounds of line 80 as half-spaces.
Unit(n, j) == [k \in 1..n |-> IF k = j THEN 1 ELSE 0]

Bounds(feeds) ==
    LET keys == XKeys(feeds)
        n == Len(keys)
        lo == [j \in 1..n |->
                 [a |-> Unit(n, j), sense |-> "ge", b |-> lowBound(feeds, keys[j])]]
        hiIdx == SelectSeq([j \in 1..n |-> j],
                           LAMBDA j : ~IsNone(upBound(feeds, keys[j])))
        hi == [k \in 1..Len(hiIdx) |->
                 [a |-> Unit(n, hiIdx[k]), sense |-> "le",
                  b |-> Get(upBound(feeds, keys[hiIdx[k]]))]]
    IN lo \o hi

BuildProblem(feeds, req) ==
    [keys        |-> XKeys(feeds),
     objective   |-> Objective(feeds),
     constraints |-> Constraints(feeds, req),
     bounds      |-> Bounds(feeds)]

---------------------------------------------------------------------------
(* The LP solver behind prob.solve (line 98)                               *)
(*                                                                         *)
(* Every variable is bounded below by 0 and the mass balance has positive  *)
(* coefficients, so the feasible region is a bounded polyhedron: it is     *)
(* non-empty exactly when it has a vertex, and the minimum cost is reached *)
(* at a vertex.  A vertex is the solution of the mass balance together     *)
(* with n-1 inequalities taken as equalities.  Cramer's rule gives every   *)
(* coordinate over the common denominator det(A), so a point is            *)
(* [num |-> <<...>>, den |-> d] with d > 0, reduced to lowest terms.       *)

Minor(A, j) ==
    [i \in 1..(Len(A) - 1) |->
       [k \in 1..(Len(A) - 1) |-> A[i + 1][IF k < j THEN k ELSE k + 1]]]

\* Determinant: the closed forms for sizes 1 to 3, the expansion along the
\* first row above.
RECURSIVE Det(_)
Det(A) ==
    CASE Len(A) = 1 -> A[1][1]
      [] Len(A) = 2 -> A[1][1] * A[2][2] - A[1][2] * A[2][1]
      [] Len(A) = 3 ->
           A[1][1] * (A[2][2] * A[3][3] - A[2][3] * A[3][2])
           - A[1][2] * (A[2][1] * A[3][3] - A[2][3] * A[3][1])
           + A[1][3] * (A[2][1] * A[3][2] - A[2][2] * A[3][1])
      [] OTHER ->
           SumSeq([j \in 1..Len(A) |->
                     IF A[1][j] = 0 THEN 0
                     ELSE (IF j % 2 = 1 THEN 1 ELSE -1) * A[1][j] * Det(Minor(A, j))])

ReplaceColumn(A, j, b) ==
    [i \in 1..Len(A) |-> [k \in 1..Len(A) |-> IF k = j THEN b[i] ELSE A[i][k]]]

RECURSIVE GcdSeq(_)
GcdSeq(s) == IF s = <<>> THEN 0 ELSE Gcd(Abs(Head(s)), GcdSeq(Tail(s)))

\* The point num/den in lowest terms with a positive denominator.
Reduce(num, den) ==
    LET g == Gcd(Abs(den), GcdSeq(num))
        sgn == IF den < 0 THEN -1 ELSE 1
    IN [num |-> [j \in 1..Len(num) |-> (sgn * num[j]) \div g],
        den |-> (sgn * den) \div g]

\* Strictly increasing index sequences of length k over lo..hi.
RECURSIVE Combos(_, _, _)
Combos(k, lo, hi) ==
    IF k = 0 THEN {<<>>}
    ELSE UNION {{<<i>> \o c : c \in Combos(k - 1, i + 1, hi)} :
                  i \in lo..(hi - k + 1)}

\* Whether the point satisfies the constraint a.x (sense) b.
Satisfies(c, p) ==
    LET lhs == Dot(c.a, p.num)
        rhs == c.b * p.den
    IN CASE c.sense = "eq" -> lhs = rhs
         [] c.sense = "ge" -> lhs >= rhs
         [] c.sense = "le" -> lhs <= rhs

Inequalities(prob) == Tail(prob.constraints) \o prob.bounds

FeasiblePoint(prob, p) ==
    /\ \A i \in 1..Len(prob.constraints) : Satisfies(prob.constraints[i], p)
    /\ \A i \in 1..Len(prob.bounds) : Satisfies(prob.bounds[i], p)

\* The square systems to solve: the mass balance with n-1 of the
\* inequalities taken as equalities, each with its determinant.
Systems(n, mass, ineq) ==
    {[A |-> [i \in 1..n |-> IF i = 1 THEN mass.a ELSE ineq[c[i - 1]].a],
      b |-> [i \in 1..n |-> IF i = 1 THEN mass.b ELSE ineq[c[i - 1]].b]] :
       c \in Combos(n - 1, 1, Len(ineq))}

WithDet(systems) == {[A |-> s.A, b |-> s.b, D |-> Det(s.A)] : s \in systems}

\* Cramer's rule on every non-singular system.
BasicPoints(prob) ==
    LET n == Len(prob.keys)
    IN {Reduce([j \in 1..n |-> Det(ReplaceColumn(s.A, j, s.b))], s.D) :
          s \in {t \in WithDet(Systems(n, Head(prob.constraints), Inequalities(prob))) :
                   t.D # 0}}

Vertices(prob) == {p \in BasicPoints(prob) : FeasiblePoint(prob, p)}

\* Objective value of a point, as the numerator over p.den.
CostNum(prob, p) == Dot(prob.objective, p.num)

CheaperOrEqual(prob, p, q) ==
    CostNum(prob, p) * q.den <= CostNum(prob, q) * p.den

\* The cheapest of a set of points.
Cheapest(prob, V) == {p \in V : \A q \in V : CheaperOrEqual(prob, p, q)}

\* Values a variable may be left with when the solve ends without an
\* optimum: the solver's contract fixes none, so any of these may be read.
StaleValues == {0, 1}

StalePoints(prob) ==
    {[num |-> v, den |-> 1] : v \in [1..Len(prob.keys) -> StaleValues]}

\* prob.solve: the status, and what x[name].varValue may hold afterwards.
\* With an optimum it is an optimal vertex (any of them on a cost tie);
\* without one it is nothing at all (None for every variable) or stale
\* numbers.
Solve(prob) ==
    LET V == Vertices(prob)
    IN IF V = {}
       THEN [status |-> "Infeasible",
             values |-> {None} \cup {Some(p) : p \in StalePoints(prob)}]
       ELSE [status |-> "Optimal",
             values |-> {Some(p) : p \in Cheapest(prob, V)}]

---------------------------------------------------------------------------
(* Reading the results back and reporting them (lines 100-121) *)

\* Line 101: sol = {f.name: (x[f.name].varValue or 0.0) for f in feeds}
Sol(prob, values) ==
    [keys |-> prob.keys,
     num  |-> [j \in 1..Len(prob.keys) |->
                 IF IsNone(values) THEN 0 ELSE Get(values).num[j]],
     den  |-> IF IsNone(values) THEN 1 ELSE Get(values).den]

KeyIndex(s, nm) == CHOOSE j \in 1..Len(s.keys) : s.keys[j] = nm

\* sol[f.name], as the numerator over s.den
Amount(s, f) == s.num[KeyIndex(s, f.name)]

\* Line 102: sum(sol.values()) runs over the dict's entries, one per key.
total_dm(s) == SumSeq(s.num)

\* Lines 103-107: sums over the feeds, one term per table row.
RowSum(feeds, s, coef) ==
    SumSeq([i \in 1..Len(feeds) |-> Amount(s, feeds[i]) * coef[i]])

total_cp_g(feeds, s) ==
    RowSum(feeds, s, [i \in 1..Len(feeds) |-> (feeds[i].cp_pct * 1000) \div 100])

\* kept in hundredths of a kg (the source divides each percentage by 100)
total_ndf_kg(feeds, s) ==
    RowSum(feeds, s, [i \in 1..Len(feeds) |-> feeds[i].ndf_pct])

total_starch_g(feeds, s) ==
    RowSum(feeds, s, [i \in 1..Len(feeds) |-> (feeds[i].starch_pct * 1000) \div 100])

total_ee_g(feeds, s) ==
    RowSum(feeds, s, [i \in 1..Len(feeds) |-> (feeds[i].ee_pct * 1000) \div 100])

total_nel(feeds, s) == RowSum(feeds, s, [i \in 1..Len(feeds) |-> feeds[i].nel])

\* pulp.value(prob.objective) at the values the variables hold
ObjectiveValue(prob, s) == Dot(prob.objective, s.num)

\* a / b of two figures over the same denominator, as the pair <<a, b>>
Ratio(a, b) == <<a, b>>

\* Lines 114-121: the figures of the Diet Composition block.  Every
\* absolute figure is a numerator over den; the per-kg and percent-of-DM
\* figures are the quotients by total_dm that the f-string evaluates.
DietComposition(feeds, prob, s) ==
    [den          |-> s.den,
     total_dm     |-> total_dm(s),
     total_nel    |-> total_nel(feeds, s),
     diet_nel     |-> Ratio(total_nel(feeds, s), total_dm(s)),
     total_cp_g   |-> total_cp_g(feeds, s),
     diet_cp      |-> Ratio(total_cp_g(feeds, s), total_dm(s)),
     total_ndf_kg |-> total_ndf_kg(feeds, s),
     diet_ndf     |-> Ratio(total_ndf_kg(feeds, s), total_dm(s)),
     total_starch_g |-> total_starch_g(feeds, s),
     diet_starch  |-> Ratio(total_starch_g(feeds, s), total_dm(s)),
     total_ee_g   |-> total_ee_g(feeds, s),
     diet_ee      |-> Ratio(total_ee_g(feeds, s), total_dm(s)),
     cost         |-> ObjectiveValue(prob, s)]

\* The page before the button is pressed: no table, no composition.
NothingShown == [table |-> None, summary |-> None, error |-> "none"]

\* Lines 109-121.  The table is put on the page first; the composition
\* block is one f-string, and a division by a zero total_dm raises
\* ZeroDivisionError before anything of the block is rendered.
Page(feeds, prob, s) ==
    IF total_dm(s) = 0
    THEN [table |-> Some(s), summary |-> None, error |-> "ZeroDivisionError"]
    ELSE [table |-> Some(s), summary |-> Some(DietComposition(feeds, prob, s)),
          error |-> "none"]

---------------------------------------------------------------------------
(* Inputs the user can give *)

Row(n, p, nel, cp, ndf, st, fat, mx) ==
    [Name |-> n, Price |-> p, NEL |-> nel, CP |-> cp, NDF |-> ndf,
     Starch |-> st, Fat |-> fat, MaxKgDM |-> mx]

\* Rows with every cell in its documented domain: a hay without a maximum,
\* a silage that meets every requirement on its own, a protein meal.
ValidRows ==
    {Row(dry_hay,     1, 15, 16, 45,  1, 3, None),
     Row(corn_silage, 1, 16, 17, 30, 20, 4, Some(2)),
     Row(sbm48,       2, 18, 48,  7,  1, 1, Some(1))}

\* Rows the editor accepts as well: a feed whose name is capitalised (and
\* that would meet every requirement on its own), a negative maximum.
FeedRows ==
    ValidRows \cup
    {Row(Hay,   1, 16, 17, 30, 20, 4, None),
     Row(sbm48, 1, 18, 48,  7,  1, 1, Some(-1))}

RECURSIVE SeqsUpTo(_, _)
SeqsUpTo(S, n) ==
    IF n = 0 THEN {<<>>}
    ELSE LET shorter == SeqsUpTo(S, n - 1)
         IN shorter \cup {Append(s, e) : s \in {t \in shorter : Len(t) = n - 1}, e \in S}

\* Feed tables of 1..MaxFeeds rows (the editor lets rows be added,
\* removed and repeated).
FeedTables == SeqsUpTo(FeedRows, MaxFeeds) \ {<<>>}

ValidFeedTables == SeqsUpTo(ValidRows, MaxFeeds) \ {<<>>}

TargetDmis == -1..MaxDmi

Prices == 1..MaxPrice

\* Sidebar defaults (lines 15-17)
default_bw_kg == 650

default_milk_kg == 45

default_dim == 75

BodyWeights == {600, default_bw_kg, 700}

MilkYields == {30, default_milk_kg, 60}

DaysInMilk == {10, default_dim, 200}

---------------------------------------------------------------------------
(* The state machine *)

NotRun == "NotRun"

NoSol == [keys |-> <<>>, num |-> <<>>, den |-> 1]

\* History: the last report that an edit of a price took off the page.
NoLast == [valid |-> FALSE]

\* One run of the script without the button pressed: the requirements are
\* recomputed (line 75) and nothing below line 78 is executed or shown.
Rerun(bw, milk, d, dmi) ==
    /\ requirements' = get_nasem_requirements(bw, milk, d, dmi)
    /\ status' = NotRun
    /\ sol' = NoSol
    /\ forage_vars' = <<>>
    /\ shown' = NothingShown

Init ==
    /\ bw_kg = default_bw_kg
    /\ milk_kg = default_milk_kg
    /\ dim = default_dim
    /\ target_dmi \in TargetDmis
    /\ feed_df \in FeedTables
    /\ requirements = get_nasem_requirements(bw_kg, milk_kg, dim, target_dmi)
    /\ status = NotRun
    /\ sol = NoSol
    /\ forage_vars = <<>>
    /\ shown = NothingShown
    /\ last = NoLast

\* The "Formulate TMR" button (lines 78-121), one handler from the
\* construction of the LP to the rendering of the composition block.
Formulate ==
    \E feeds \in {Feeds(feed_df)},
       req \in {get_nasem_requirements(bw_kg, milk_kg, dim, target_dmi)} :
      \E prob \in {BuildProblem(feeds, req)} :
        \E res \in {Solve(prob)} :
          \E values \in res.values :
            \E s \in {Sol(prob, values)} :
              /\ requirements' = req
              /\ status' = res.status
              /\ sol' = s
              /\ forage_vars' = [i \in 1..Len(ForageVars(feeds)) |->
                                   ForageVars(feeds)[i].name]
              /\ shown' = Page(feeds, prob, s)
              /\ UNCHANGED <<bw_kg, milk_kg, dim, target_dmi, feed_df, last>>

\* What is remembered of the report on the page when an edit removes it.
Remembered ==
    IF IsNone(shown.table) THEN NoLast
    ELSE [valid    |-> TRUE,
          feed_df  |-> feed_df,
          dmi_kg   |-> requirements.dmi_kg,
          status   |-> status,
          reported |-> ~IsNone(shown.summary),
          cost     |-> IF IsNone(shown.summary) THEN 0 ELSE Get(shown.summary).cost,
          den      |-> IF IsNone(shown.summary) THEN 1 ELSE Get(shown.summary).den]

\* The user types a higher price into row i of the feed table.
RaisePrice(i, p) ==
    /\ i \in 1..Len(feed_df)
    /\ p \in Prices
    /\ p > feed_df[i].Price
    /\ feed_df' = [feed_df EXCEPT ![i].Price = p]
    /\ last' = Remembered
    /\ Rerun(bw_kg, milk_kg, dim, target_dmi)
    /\ UNCHANGED <<bw_kg, milk_kg, dim, target_dmi>>

EditBodyWeight(v) ==
    /\ v # bw_kg
    /\ bw_kg' = v
    /\ last' = NoLast
    /\ Rerun(v, milk_kg, dim, target_dmi)
    /\ UNCHANGED <<milk_kg, dim, target_dmi, feed_df>>

EditMilkYield(v) ==
    /\ v # milk_kg
    /\ milk_kg' = v
    /\ last' = NoLast
    /\ Rerun(bw_kg, v, dim, target_dmi)
    /\ UNCHANGED <<bw_kg, dim, target_dmi, feed_df>>

EditDaysInMilk(v) ==
    /\ v # dim
    /\ dim' = v
    /\ last' = NoLast
    /\ Rerun(bw_kg, milk_kg, v, target_dmi)
    /\ UNCHANGED <<bw_kg, milk_kg, target_dmi, feed_df>>

EditTargetDmi(v) ==
    /\ v # target_dmi
    /\ target_dmi' = v
    /\ last' = NoLast
    /\ Rerun(bw_kg, milk_kg, dim, v)
    /\ UNCHANGED <<bw_kg, milk_kg, dim, feed_df>>

\* A formulation run on any feed table and any target DMI.
Next == Formulate

Spec == Init /\ [][Next]_vars

\* Formulation runs separated by price increases, on valid inputs.
InitPrice ==
    /\ Init
    /\ target_dmi >= 1
    /\ feed_df \in ValidFeedTables

NextPrice ==
    \/ Formulate
    \/ \E i \in 1..MaxFeeds, p \in Prices : RaisePrice(i, p)

SpecPrice == InitPrice /\ [][NextPrice]_vars

\* The herd inputs alone: every sidebar edit re-runs the script and with it
\* the requirement estimator.
InitHerd ==
    /\ Init
    /\ target_dmi = 1
    /\ feed_df = <<Row(corn_silage, 1, 16, 17, 30, 20, 4, Some(2))>>

NextHerd ==
    \/ \E v \in BodyWeights : EditBodyWeight(v)
    \/ \E v \in MilkYields : EditMilkYield(v)
    \/ \E v \in DaysInMilk : EditDaysInMilk(v)
    \/ \E v \in TargetDmis : EditTargetDmi(v)

SpecHerd == InitHerd /\ [][NextHerd]_vars

---------------------------------------------------------------------------
(* Vocabulary of the properties *)

Ran == status # NotRun

TableShown == ~IsNone(shown.table)

SummaryShown == ~IsNone(shown.summary)

CurrentFeeds == Feeds(feed_df)

NamesUnique == Len(sol.keys) = Len(feed_df)

\* The amount the table reports for row i, as the numerator over sol.den.
ReportedAmount(i) == Amount(sol, CurrentFeeds[i])

\* The classification the forage rule is documented to make on the names
\* of the model: lower-case "hay" or "silage" somewhere in the name.
DocumentedForageNames == {dry_hay, corn_silage}

\* The reported amounts of the forage rows, summed.
ReportedForage ==
    SumSeq([i \in 1..Len(feed_df) |->
              IF feed_df[i].Name \in DocumentedForageNames
              THEN ReportedAmount(i) ELSE 0])

---------------------------------------------------------------------------
(* C1 *)

\* C1: a solve that ends without an optimum ends the run in a failure
\* outcome (Infeasible / Unbounded): no table of amounts, no diet summary
\* and no cost reach the page.
C1_NonOptimalEndsInFailure ==
    (Ran /\ status # "Optimal") =>
        /\ ~TableShown
        /\ ~SummaryShown
        /\ shown.error \in {"Infeasible", "Unbounded"}

---------------------------------------------------------------------------
(* C2 *)

\* C2: with a target DMI of 0 or less the run fails with InvalidInput
\* before the LP is built: no LP is solved, no ration (all zeros or other)
\* is shown and the composition step is not reached.
C2_NonPositiveDmiRejected ==
    (target_dmi <= 0) =>
        /\ ~Ran
        /\ ~TableShown
        /\ shown.error \in {"none", "InvalidInput"}

---------------------------------------------------------------------------
(* C3 *)

\* C3: whenever a ration is reported, the reported amounts sum to
\* requirements.dmi_kg.
C3_ReportedMassBalance ==
    TableShown => total_dm(sol) = requirements.dmi_kg * sol.den

---------------------------------------------------------------------------
(* C4 *)

\* C4: whenever a ration is reported, the diet totals computed from the
\* reported amounts meet every adequacy constraint: NEL, crude protein,
\* the NDF band, the starch ceiling and the forage minimum.
C4_ReportedAdequacy ==
    TableShown =>
        /\ total_nel(CurrentFeeds, sol) >= requirements.nel_mcal * sol.den
        /\ total_cp_g(CurrentFeeds, sol) >= requirements.cp_g * sol.den
        /\ total_ndf_kg(CurrentFeeds, sol)
             >= requirements.ndf_min_pct * requirements.dmi_kg * sol.den
        /\ total_ndf_kg(CurrentFeeds, sol)
             <= requirements.ndf_max_pct * requirements.dmi_kg * sol.den
        /\ total_starch_g(CurrentFeeds, sol)
             <= requirements.starch_max_pct * 10 * requirements.dmi_kg * sol.den
        /\ 5 * ReportedForage >= requirements.dmi_kg * sol.den

---------------------------------------------------------------------------
(* C5 *)

\* C5: whenever a ration is reported, the amount reported for every row of
\* the catalog is >= 0, >= the row's min_kg_dm and <= its max_kg_dm when
\* the row has one.
C5_ReportedWithinBounds ==
    TableShown =>
        \A i \in 1..Len(feed_df) :
            /\ ReportedAmount(i) >= 0
            /\ ReportedAmount(i) >= CurrentFeeds[i].min_kg_dm * sol.den
            /\ ~IsNone(CurrentFeeds[i].max_kg_dm) =>
                   ReportedAmount(i) <= Get(CurrentFeeds[i].max_kg_dm) * sol.den

---------------------------------------------------------------------------
(* C6 *)

\* C6: a catalog with a repeated name is rejected or de-duplicated before
\* the LP is built: no LP is solved in which two rows share a decision
\* variable and no single amount is reported for two rows.
C6_DuplicateNamesNeverSolved ==
    \A i, k \in 1..Len(feed_df) :
        (i # k /\ feed_df[i].Name = feed_df[k].Name) => (~Ran /\ ~TableShown)

---------------------------------------------------------------------------
(* C7 *)

\* C7: for every positive target DMI d, whatever the body weight, milk
\* yield and days in milk, the requirements are dmi_kg = d, cp_g = 170 d,
\* nel_mcal = 1.6 d (16 d in tenths of a Mcal), an NDF band of 26..34 and a
\* starch ceiling of 30, and ndf_min_pct <= ndf_max_pct.
C7_RequirementsFromDmiAlone ==
    (target_dmi > 0) =>
        /\ requirements = [dmi_kg         |-> target_dmi,
                           nel_mcal       |-> 16 * target_dmi,
                           cp_g           |-> 170 * target_dmi,
                           ndf_min_pct    |-> 26,
                           ndf_max_pct    |-> 34,
                           starch_max_pct |-> 30]
        /\ requirements.ndf_min_pct <= requirements.ndf_max_pct

\* Every herd input differs from its default and the target DMI is 2.
C7_Witness ==
    /\ target_dmi = 2
    /\ bw_kg = 700
    /\ milk_kg = 60
    /\ dim = 10
    /\ requirements.cp_g = 340
    /\ requirements.nel_mcal = 32

---------------------------------------------------------------------------
(* C8 *)

\* C8: the composition step never divides by a total dry matter of zero:
\* when the aggregated amounts sum to 0 the run ends in DivisionUndefined
\* (or a sentinel), not in a division.
C8_NoDivisionByZero ==
    (Ran /\ total_dm(sol) = 0) =>
        /\ shown.error # "ZeroDivisionError"
        /\ shown.error = "DivisionUndefined" \/ SummaryShown

---------------------------------------------------------------------------
(* C9 *)

\* new is old with the price of exactly one row raised.
PriceRaisedInOneRow(old, new) ==
    /\ Len(old) = Len(new)
    /\ \E i \in 1..Len(old) :
         /\ new[i].Price > old[i].Price
         /\ new = [old EXCEPT ![i].Price = new[i].Price]

\* Two reported optimal runs, the second on the first's inputs with one
\* price raised.
ComparableRuns ==
    /\ last.valid
    /\ last.status = "Optimal"
    /\ last.reported
    /\ status = "Optimal"
    /\ SummaryShown
    /\ last.dmi_kg = requirements.dmi_kg
    /\ PriceRaisedInOneRow(last.feed_df, feed_df)

\* C9: of two feasible runs that differ only in one ingredient's price,
\* higher in the second, the second reports a cost that is not lower.
C9_CostMonotoneInPrice ==
    ComparableRuns =>
        Get(shown.summary).cost * last.den >= last.cost * Get(shown.summary).den

\* A second run whose reported cost is strictly higher than the first's.
C9_Witness ==
    /\ ComparableRuns
    /\ Len(feed_df) = 2
    /\ Get(shown.summary).cost * last.den > last.cost * Get(shown.summary).den

---------------------------------------------------------------------------
(* C10 *)

NoDocumentedForage == \A i \in 1..Len(feed_df) : feed_df[i].Name \notin DocumentedForageNames

InDocumentedForage(n) == n \in DocumentedForageNames

\* C10: the forage constraint is built from exactly the rows whose name
\* contains lower-case "hay" or "silage"; and when no row's name does and
\* the target DMI is positive, the solve finds no feasible point.
C10_ForageBySubstring ==
    Ran =>
        /\ forage_vars = SelectSeq([i \in 1..Len(feed_df) |-> feed_df[i].Name],
                                   InDocumentedForage)
        /\ (NoDocumentedForage /\ target_dmi > 0) => status = "Infeasible"

\* A run on a table whose only feed is named "Hay" and would meet every
\* other requirement on its own.
C10_Witness ==
    /\ Ran
    /\ target_dmi = 1
    /\ Len(feed_df) = 1
    /\ feed_df[1].Name = Hay
    /\ forage_vars = <<>>
    /\ status = "Infeasible"

---------------------------------------------------------------------------
(* Sanity of the solver model *)

\* When the solve is optimal and every row has its own variable, what is
\* reported meets the mass balance, the adequacy constraints and the bounds.
OptimalRationMeetsConstraints ==
    (status = "Optimal" /\ NamesUnique) =>
        /\ C3_ReportedMassBalance
        /\ C4_ReportedAdequacy
        /\ C5_ReportedWithinBounds

===========================================================================
